---- MODULE Spec2Model ----
(***************************************************************************)
(* Model of the TSM file writer of tskv (src/tskv/src/tsm/writer.rs):      *)
(* the TsmWriter::write orchestrator, the IndexBuf index builder, the      *)
(* buffered TsmCacheWriter and the streaming DefaultTsmWriter.             *)
(*                                                                         *)
(* One behaviour is one call of write() on a freshly constructed writer.   *)
(* The sink (FileCursor), the block encoder (DataBlock::encode), the       *)
(* checksum (crc32fast) and the BloomFilter live outside writer.rs; they   *)
(* are modelled by their contracts.                                        *)
(***************************************************************************)
EXTENDS Integers, Sequences, FiniteSets, TLC

\* ---------------------------------------------------------------- bounds
\* super::MAX_BLOCK_VALUES, the chunk cap (writer.rs:13). The model runs with
\* a small cap so that fields of cap-1, cap and cap+1 points all occur.
MAX_BLOCK_VALUES == 2
\* The longest Typed Block of the model: one point more than the cap, so a
\* field with a remainder chunk followed by a full chunk always exists.
MaxPoints == MAX_BLOCK_VALUES + 1
\* Field identifiers of the cached mapping.
FieldIds == {1, 2}
\* The points (timestamp, value) a Typed Block is made of, in any order and
\* with repetition (test_tsm_write_fast uses timestamps 2, 3, 4 and values 12, 13, 15).
PointDomain == {<<2, 12>>, <<3, 13>>}
\* ValueType codes written to the index (u8::from(block_type)):
\* 1 = Float, 3 = Unsigned.
ValueTypes == {1, 3}
\* Positions the FileCursor may have when the writer is constructed.
StartPositions == {0, 3}

\* -------------------------------------------------------------- constants
HEADER_LEN == 5
TSM_MAGIC == 20211219
VERSION == 1
\* Sizes imported from the parent module (writer.rs:12); the layout comment
\* of writer.rs gives them: index meta 8+1+2 bytes, block meta 5*8 bytes,
\* bloom filter 8 bytes.
INDEX_META_SIZE == 11
BLOCK_META_SIZE == 40
BLOOM_FILTER_BITS == 64

\* ------------------------------------------------------------ byte helpers
\* Byte k (0 = least significant) of the two's complement form of x.
\* Model integers stay below 2^31, so bytes 4..7 are the sign extension.
BEByte(x, k) == IF k <= 3 THEN (x \div (256 ^ k)) % 256
                ELSE IF x < 0 THEN 255 ELSE 0

\* uN::to_be_bytes / iN::to_be_bytes for a w-byte integer.
to_be_bytes(x, w) == [j \in 1..w |-> BEByte(x, w - j)]

\* The reader's inverse of to_be_bytes for non-negative values.
RECURSIVE from_be_bytes(_)
from_be_bytes(b) ==
    IF Len(b) = 0 THEN 0
    ELSE 256 * from_be_bytes(SubSeq(b, 1, Len(b) - 1)) + b[Len(b)]

\* buf[from..to), 0-based and half open, as a Rust slice.
Slice(buf, from, to) == SubSeq(buf, from + 1, to)

\* crc32fast::hash: a deterministic 32-bit function of the buffer.
RECURSIVE crc32fast_hash(_)
crc32fast_hash(buf) ==
    IF Len(buf) = 0 THEN 17
    ELSE (crc32fast_hash(SubSeq(buf, 1, Len(buf) - 1)) * 31 + buf[Len(buf)]) % 16777216

\* ---------------------------------------------------------- Typed Blocks
DataBlocks ==
    UNION { { [ts |-> [j \in 1..n |-> p[j][1]], val |-> [j \in 1..n |-> p[j][2]], type |-> ty] :
                p \in [1..n -> PointDomain], ty \in ValueTypes }
            : n \in 0..MaxPoints }

\* DataBlock::len and DataBlock::field_type.
BlockLen(block) == Len(block.ts)
FieldType(block) == block.type

\* DataBlock::encode(start, end): the timestamp bytes and the value bytes of
\* the points [start, end). Variable-length, a pure function of the range.
EncodeTs(block, start, end) ==
    <<end - start>> \o [j \in 1..(end - start) |-> block.ts[start + j] % 256]
EncodeVal(block, start, end) ==
    <<block.type>> \o [j \in 1..(end - start) |-> block.val[start + j] % 256]

\* ---------------------------------------------------------- BloomFilter
\* utils::BloomFilter as a set of bit positions.
BloomNew == {}
BloomHash(key) == (key * 131 + 7) % BLOOM_FILTER_BITS
BloomContains(bf, key) == BloomHash(key) \in bf
RECURSIVE BitsValue(_)
BitsValue(bits) ==
    IF bits = {} THEN 0
    ELSE LET b == CHOOSE x \in bits : TRUE IN 2 ^ b + BitsValue(bits \ {b})
\* BloomFilter::bytes: the raw bit array, BLOOM_FILTER_BITS / 8 bytes.
BloomBytes(bf) ==
    [j \in 1..(BLOOM_FILTER_BITS \div 8) |->
        BitsValue({ b % 8 : b \in { x \in bf : x \div 8 = j - 1 } })]

VARIABLES
    variant,                \* "cache" (TsmCacheWriter) or "default" (DefaultTsmWriter)
    cached_blocks,          \* TsmCacheWriter.cached_blocks: FieldId -> DataBlock
    pos,                    \* FileCursor position (absolute offset)
    file,                   \* bytes this cursor has appended to the sink
    synced,                 \* history: file length at each successful sync_all(Hard)
    io_errors,              \* history: number of sink calls that returned an error
    index_offset,           \* IndexBuf.index_offset
    index_meta,             \* IndexBuf.index_meta
    last_block_meta_offset, \* IndexBuf.last_block_meta_offset
    block_meta_offsets,     \* IndexBuf.block_meta_offsets
    block_meta,             \* IndexBuf.block_meta
    bloom_filter,           \* IndexBuf.bloom_filter
    pc,                     \* position of the write() call
    size,                   \* local `size` of TsmWriter::write
    iter_left,              \* fields the HashMap iterator of write_blocks has not yielded
    blocks_size,            \* local `size` of write_blocks
    cur,                    \* locals of the running write_one_block
    result,                 \* what write() returned
    calls,                  \* history: phases invoked, in order
    returned,               \* history: byte count each phase returned with Ok
    chunks,                 \* history: one record per chunk emitted
    start_pos               \* history: cursor position at construction

ibvars == <<index_offset, index_meta, last_block_meta_offset, block_meta_offsets,
            block_meta, bloom_filter>>
sinkvars == <<pos, file, synced, io_errors>>
inputvars == <<variant, cached_blocks, start_pos>>
writervars == <<variant, cached_blocks, pos, file, synced, io_errors, index_offset, index_meta,
                last_block_meta_offset, block_meta_offsets, block_meta, bloom_filter,
                pc, size, iter_left, blocks_size, cur, result, calls, returned, chunks,
                start_pos>>

NoCur == [fid |-> 0, i |-> 0, last_index |-> 0, total_size |-> 0, block_count |-> 0,
          idx_meta_beg |-> 0]
NoResult == [kind |-> "none"]
Ok(n) == [kind |-> "Ok", size |-> n]
\* Error::WriteTsmErr { reason: e.to_string() }
WriteTsmErr(phase, cause) == [kind |-> "WriteTsmErr", phase |-> phase, reason |-> cause]

\* ------------------------------------------------- DropGlobalObjectTask

\* GlobalObjectType, the object names a statement can carry, and the errors a
\* manager call can return (opaque to the task).
GlobalObjectTypes == {"User", "Tenant"}
ObjectNames == {"alice", "bob"}
MetaErrors == {"Retry", "Unavailable"}

VARIABLES
    users,                  \* what meta.user_manager() holds
    tenants,                \* what meta.tenant_manager() holds
    stmt,                   \* the DropGlobalObject statement of the last task
    manager_call,           \* history: the manager call the last task made
    reply,                  \* history: what that call returned
    output                  \* what execute() returned

dropvars == <<users, tenants, stmt, manager_call, reply, output>>

VARIABLES
    session,                \* the SessionCtx of the last table() call
    view_name,              \* its table name
    base_rows,              \* rows of the base table behind that name
    view                    \* what table() returned

usagevars == <<session, view_name, base_rows, view>>

NoStmt == [kind |-> "none"]
DropGlobalObject(name, if_exist, obj_type) ==
    [kind |-> "DropGlobalObject", name |-> name, if_exist |-> if_exist,
     obj_type |-> obj_type]

\* Result<bool> of drop_user / drop_tenant.
ManagerOk(success) == [kind |-> "Ok", success |-> success]
ManagerErr(e) == [kind |-> "Err", error |-> e]

\* drop_user(name) / drop_tenant(name): reports whether the object existed,
\* or fails.
ManagerReplies(objs, name) ==
    {ManagerOk(name \in objs)} \cup {ManagerErr(e) : e \in MetaErrors}
AfterDrop(objs, name, r) == IF r.kind = "Ok" THEN objs \ {name} ELSE objs

OutputNil == [kind |-> "Ok", output |-> "Nil"]
ExecutionErrorMetadata(source) == [kind |-> "Err", error |-> "Metadata", source |-> source]
UserNotFound(name) == [error |-> "UserNotFound", user |-> name]
TenantNotFound(name) == [error |-> "TenantNotFound", tenant |-> name]

\* Mutant: IF EXISTS is not honoured.
NotFoundIgnoresIfExist(if_exist, success) == ~success
\* if let (false, false) = (if_exist, success)
NotFound(if_exist, success) == <<if_exist, success>> = <<FALSE, FALSE>>

\* What execute() returns once the manager has replied with r.
ExecuteOutput(name, if_exist, obj_type, r) ==
    IF r.kind = "Err" THEN ExecutionErrorMetadata(r.error)
    ELSE IF NotFound(if_exist, r.success)
         THEN ExecutionErrorMetadata(IF obj_type = "User" THEN UserNotFound(name)
                                                          ELSE TenantNotFound(name))
         ELSE OutputNil

DropInit ==
    /\ users \in SUBSET ObjectNames
    /\ tenants \in SUBSET ObjectNames
    /\ stmt = NoStmt
    /\ manager_call = <<>>
    /\ reply = NoResult
    /\ output = NoResult

DropIdle == DropInit /\ users = {} /\ tenants = {}

\* DropGlobalObjectTask::execute
Execute(name, if_exist, obj_type) ==
    \E r \in ManagerReplies(IF obj_type = "User" THEN users ELSE tenants, name) :
        /\ stmt' = DropGlobalObject(name, if_exist, obj_type)
        /\ manager_call' = <<[manager |-> obj_type, op |-> "drop", name |-> name]>>
        /\ reply' = r
        /\ users' = IF obj_type = "User" THEN AfterDrop(users, name, r) ELSE users
        /\ tenants' = IF obj_type = "Tenant" THEN AfterDrop(tenants, name, r) ELSE tenants
        /\ output' = ExecuteOutput(name, if_exist, obj_type, r)
        /\ UNCHANGED <<writervars, usagevars>>

\* ------------------------------------------------- UsageSchemaProvider

DEFAULT_CATALOG == "cnosdb"
Tenants == {DEFAULT_CATALOG, "t1", "t2"}
\* Two of the registered table factories, and a name that is not registered.
TableFactories == {"user_queries", "vnode_disk_storage"}
ViewNames == TableFactories \cup {"no_such_table"}
\* What build_table_handle can return: an error, or one of the TableHandle variants.
TableHandles == {"Err", "Tskv", "External"}
\* Rows of a usage_schema base table: the tenant column and a value.
UsageRows == [tenant : Tenants, value : {1}]
\* SessionCtx: session.user().desc().is_admin() and session.tenant().
Sessions == [is_admin : BOOLEAN, tenant : Tenants]

QueryErr(e) == [kind |-> "Err", error |-> e]
NoFilter == [kind |-> "none"]
\* binary_expr(col("tenant"), Operator::Eq, lit(tenant_name))
TenantFilter(tenant_name) ==
    [kind |-> "filter", col |-> "tenant", op |-> "Eq", lit |-> tenant_name]

\* Mutant: the filter is skipped for every admin and for every session of the
\* default catalog.
SeesAllTenantsAdminOrDefault(s) == s.is_admin \/ s.tenant = DEFAULT_CATALOG
\* session.user().desc().is_admin() && tenant_name.eq(DEFAULT_CATALOG)
SeesAllTenants(s) == s.is_admin /\ s.tenant = DEFAULT_CATALOG

\* handle is what build_table_handle returned, plan_ok whether scan, filter,
\* build and ViewTable::try_new all succeeded.
create_usage_schema_view_table(s, handle, view_table_name, plan_ok) ==
    IF handle = "Err" THEN QueryErr("BuildTableHandle")
    ELSE IF handle # "Tskv" THEN QueryErr("Internal")
    ELSE IF ~plan_ok THEN QueryErr("DataFusion")
    ELSE [kind |-> "Ok", table |-> view_table_name,
          filter |-> IF SeesAllTenants(s) THEN NoFilter ELSE TenantFilter(s.tenant)]

\* The rows a scan of the view's logical plan yields over the base table.
ViewRows(v, rows) ==
    IF v.filter.kind = "none" THEN rows
    ELSE { r \in rows : r[v.filter.col] = v.filter.lit }

UsageIdle ==
    /\ session = NoResult
    /\ view_name = ""
    /\ base_rows = {}
    /\ view = NoResult

\* UsageSchemaProvider::table
Table(s, name) ==
    /\ session' = s
    /\ view_name' = name
    /\ base_rows' \in SUBSET UsageRows
    /\ \E handle \in TableHandles, plan_ok \in BOOLEAN :
          view' = IF name \notin TableFactories
                  THEN QueryErr("TableNotFound")
                  ELSE create_usage_schema_view_table(s, handle, name, plan_ok)
    /\ UNCHANGED <<writervars, dropvars>>

vars == <<writervars, dropvars, usagevars>>

\* ------------------------------------------------------------- writer

\* TsmCacheWriter::new / DefaultTsmWriter::new with IndexBuf::new.
TsmWriterNew ==
    /\ variant \in {"cache", "default"}
    /\ \E S \in SUBSET FieldIds :
          /\ variant = "default" => S = {}
          /\ cached_blocks \in [S -> DataBlocks]
    /\ start_pos \in StartPositions
    /\ pos = start_pos
    /\ file = <<>>
    /\ synced = <<>>
    /\ io_errors = 0
    /\ index_offset = 0
    /\ index_meta = <<>>
    /\ last_block_meta_offset = 0
    /\ block_meta_offsets = <<>>
    /\ block_meta = <<>>
    /\ bloom_filter = BloomNew
    /\ pc = "header"
    /\ size = 0
    /\ iter_left = {}
    /\ blocks_size = 0
    /\ cur = NoCur
    /\ result = NoResult
    /\ calls = <<>>
    /\ returned = <<>>
    /\ chunks = <<>>

\* A writer is constructed; no statement is executed and no view is created.
Init == TsmWriterNew /\ DropIdle /\ UsageIdle

\* ------------------------------------------------------------------ sink
\* FileCursor::write of a sequence of buffers, one call each, of which the
\* call number failAt fails (0: none fails). A call that succeeds appends
\* its whole buffer; the failing call and the calls after it append nothing.
RECURSIVE Concat(_)
Concat(bufs) == IF Len(bufs) = 0 THEN <<>> ELSE bufs[1] \o Concat(Tail(bufs))
Written(bufs, failAt) ==
    IF failAt = 0 THEN Concat(bufs) ELSE Concat(SubSeq(bufs, 1, failAt - 1))

\* Mutant: the error of a phase is dropped and the chain goes on to the next phase.
FailSkipsToNext(phase, cause) ==
    /\ pc' = CASE phase = "write_header" -> "blocks"
              [] phase = "write_blocks" -> "index"
              [] phase = "write_index" -> "footer"
              [] phase = "write_footer" -> "flush"
              [] OTHER -> "done"
    /\ result' = IF phase = "flush" THEN Ok(size) ELSE result

\* Mutant: the failed phase is run again instead of returning the error.
FailRetries(phase, cause) == UNCHANGED <<pc, result>>

\* The phase failed: write() maps the error to WriteTsmErr and returns.
Fail(phase, cause) ==
    /\ pc' = "failed"
    /\ result' = WriteTsmErr(phase, cause)

\* write(): `size += i` in the closures that follow header, blocks and index.
AddSize(acc, i) == acc + i
\* write(): `.and_then(|size| self.flush())`: the closure's parameter shadows
\* the accumulator, so the footer's byte count is dropped.
FooterSize(acc, i) == acc

\* Mutant: the magic is written least significant byte first.
HeaderBufsLittleEndian ==
    <<[j \in 1..4 |-> BEByte(TSM_MAGIC, j - 1)], to_be_bytes(VERSION, 1)>>

\* write_header_to: the magic, then the version.
HeaderBufs == <<to_be_bytes(TSM_MAGIC, 4), to_be_bytes(VERSION, 1)>>

\* write(): self.write_header()
WriteHeader ==
    /\ pc = "header"
    /\ UNCHANGED <<dropvars, usagevars>>
    /\ calls' = Append(calls, "write_header")
    /\ \E failAt \in 0..Len(HeaderBufs) :
          LET out == Written(HeaderBufs, failAt) IN
          /\ file' = file \o out
          /\ pos' = pos + Len(out)
          /\ io_errors' = io_errors + (IF failAt = 0 THEN 0 ELSE 1)
          /\ IF failAt = 0
             THEN /\ pc' = "blocks"
                  /\ size' = AddSize(size, Len(out))
                  /\ returned' = Append(returned, Len(out))
                  /\ UNCHANGED result
             ELSE /\ Fail("write_header", "io")
                  /\ UNCHANGED <<size, returned>>
    /\ UNCHANGED <<inputvars, ibvars, synced, iter_left, blocks_size, cur, chunks>>

\* ------------------------------------------------------------- IndexBuf
\* Mutant: offset and val_off are appended in each other's place.
insert_block_meta_swapped(bm, min_ts, max_ts, offset, blk_size, val_off) ==
    bm \o to_be_bytes(min_ts, 8) \o to_be_bytes(max_ts, 8) \o to_be_bytes(val_off, 8)
       \o to_be_bytes(blk_size, 8) \o to_be_bytes(offset, 8)

\* IndexBuf::insert_block_meta: five 8-byte big-endian fields.
insert_block_meta(bm, min_ts, max_ts, offset, blk_size, val_off) ==
    bm \o to_be_bytes(min_ts, 8) \o to_be_bytes(max_ts, 8) \o to_be_bytes(offset, 8)
       \o to_be_bytes(blk_size, 8) \o to_be_bytes(val_off, 8)

\* Mutant: the value type byte is left out of the conversion and written as 0.
IndexMetaBytesTypeUnknown(field_id, block_type, block_count) ==
    to_be_bytes(field_id, 8) \o to_be_bytes(0, 1) \o to_be_bytes(block_count, 2)

\* IndexBuf::insert_index_meta, the bytes appended to index_meta.
IndexMetaBytes(field_id, block_type, block_count) ==
    to_be_bytes(field_id, 8) \o to_be_bytes(block_type, 1) \o to_be_bytes(block_count, 2)

\* ------------------------------------------------------ write_one_block
\* let block_count = ((point_cnt - 1) / MAX_BLOCK_VALUES + 1) as u16;
BlockCount(point_cnt) == (((point_cnt - 1) \div MAX_BLOCK_VALUES) + 1) % 65536

\* Mutant: every chunk starts at the first point of the block.
ChunkStartFromZero(last_index, i) == 0

\* let start = last_index;
ChunkStart(last_index, i) == last_index

\* let end = point_cnt % MAX_BLOCK_VALUES + i * MAX_BLOCK_VALUES;
ChunkEnd(point_cnt, i) == (point_cnt % MAX_BLOCK_VALUES) + i * MAX_BLOCK_VALUES

\* min_ts = ts_sli[start]; max_ts = ts_sli[end - 1];  (0-based indices)
MinTs(ts_sli, start, end) == ts_sli[start + 1]
MaxTs(ts_sli, start, end) == ts_sli[end]

\* Mutant: the chunk offset is taken after the timestamp checksum was written.
ChunkOffsetAfterCrc(pos_before, idx_meta_beg) == pos_before + 4

\* Mutant: the chunk offset is taken from idx_meta_beg, the position at which
\* the field began.
ChunkOffsetAtFieldStart(pos_before, idx_meta_beg) == idx_meta_beg

\* offset = writer.pos();  taken before the timestamp checksum is written.
ChunkOffset(pos_before, idx_meta_beg) == pos_before

\* The four buffers of a chunk in the order they are written.
ChunkBufs(ts_buf, data_buf) ==
    << to_be_bytes(crc32fast_hash(ts_buf), 4), ts_buf,
       to_be_bytes(crc32fast_hash(data_buf), 4), data_buf >>

\* Mutant: the two checksum writes are not counted.
BlkSizeWithoutCrc(bufs) == Len(bufs[2]) + Len(bufs[4])

\* blk_size: the sum of the counts the four writes returned.
BlkSize(bufs) == Len(bufs[1]) + Len(bufs[2]) + Len(bufs[3]) + Len(bufs[4])

\* A panic unwinds out of write(): nothing is returned.
Panic == pc' = "panicked" /\ UNCHANGED result

\* write(): self.write_blocks(), up to the first iteration of its loop.
\* DefaultTsmWriter::write_blocks is todo!().
WriteBlocksBegin ==
    /\ pc = "blocks"
    /\ UNCHANGED <<dropvars, usagevars>>
    /\ calls' = Append(calls, "write_blocks")
    /\ IF variant = "default"
       THEN /\ Panic
            /\ UNCHANGED <<iter_left, blocks_size>>
       ELSE /\ pc' = "blocks_iter"
            /\ iter_left' = DOMAIN cached_blocks
            /\ blocks_size' = 0
            /\ UNCHANGED result
    /\ UNCHANGED <<inputvars, ibvars, sinkvars, size, cur, returned, chunks>>

\* The HashMap iterator yields some field not yet visited; write_one_block
\* runs up to its loop. An empty block underflows point_cnt - 1 (a panic in
\* a checked build; in an unchecked build ts_sli[0] panics in the loop).
WriteOneBlockBegin ==
    /\ pc = "blocks_iter"
    /\ UNCHANGED <<dropvars, usagevars>>
    /\ \E fid \in iter_left :
          LET point_cnt == BlockLen(cached_blocks[fid]) IN
          /\ iter_left' = iter_left \ {fid}
          /\ IF point_cnt = 0
             THEN Panic /\ UNCHANGED cur
             ELSE /\ pc' = "chunk"
                  /\ cur' = [fid |-> fid, i |-> 0, last_index |-> 0, total_size |-> 0,
                             block_count |-> BlockCount(point_cnt), idx_meta_beg |-> pos]
                  /\ UNCHANGED result
    /\ UNCHANGED <<inputvars, ibvars, sinkvars, size, blocks_size, calls, returned, chunks>>

\* One iteration of `while i < block_count`.
WriteChunk ==
    /\ pc = "chunk"
    /\ UNCHANGED <<dropvars, usagevars>>
    /\ cur.i < cur.block_count
    /\ LET block == cached_blocks[cur.fid]
           point_cnt == BlockLen(block)
           start == ChunkStart(cur.last_index, cur.i)
           end == ChunkEnd(point_cnt, cur.i)
       IN
       IF start >= point_cnt \/ end = 0 \/ end > point_cnt \/ start > end
       THEN \* ts_sli[start], ts_sli[end - 1] or the encoder's range is out of bounds
            /\ Panic
            /\ UNCHANGED <<sinkvars, ibvars, cur, chunks>>
       ELSE
         LET min_ts == MinTs(block.ts, start, end)
             max_ts == MaxTs(block.ts, start, end)
             offset == ChunkOffset(pos, cur.idx_meta_beg)
             bufs == ChunkBufs(EncodeTs(block, start, end), EncodeVal(block, start, end))
             val_off == pos + Len(bufs[1]) + Len(bufs[2])
         IN
         \/ \* block.encode(start, end)? fails
            /\ Fail("write_blocks", "encode")
            /\ UNCHANGED <<sinkvars, ibvars, cur, chunks>>
         \/ \E failAt \in 0..4 :
               LET out == Written(bufs, failAt) IN
               /\ file' = file \o out
               /\ pos' = pos + Len(out)
               /\ io_errors' = io_errors + (IF failAt = 0 THEN 0 ELSE 1)
               /\ UNCHANGED synced
               /\ IF failAt = 0
                  THEN /\ block_meta' = insert_block_meta(block_meta, min_ts, max_ts, offset,
                                                          BlkSize(bufs), val_off)
                       /\ cur' = [cur EXCEPT !.i = cur.i + 1, !.last_index = end,
                                             !.total_size = cur.total_size + BlkSize(bufs)]
                       /\ chunks' = Append(chunks,
                              [fid |-> cur.fid, start |-> start, end |-> end,
                               pos_before |-> pos, pos_after |-> pos + Len(out),
                               val_pos |-> val_off,
                               ts_len |-> Len(bufs[2]), data_len |-> Len(bufs[4])])
                       /\ UNCHANGED <<pc, result, index_offset, index_meta,
                                      last_block_meta_offset, block_meta_offsets, bloom_filter>>
                  ELSE /\ Fail("write_blocks", "io")
                       /\ UNCHANGED <<ibvars, cur, chunks>>
    /\ UNCHANGED <<inputvars, size, iter_left, blocks_size, calls, returned>>

\* The loop of write_one_block is over: index_buf.insert_index_meta(..), then
\* Ok(total_size), which write_blocks adds to its size.
WriteOneBlockEnd ==
    /\ pc = "chunk"
    /\ UNCHANGED <<dropvars, usagevars>>
    /\ cur.i >= cur.block_count
    /\ index_meta' = index_meta \o IndexMetaBytes(cur.fid, FieldType(cached_blocks[cur.fid]),
                                                  cur.block_count)
    /\ block_meta_offsets' = Append(block_meta_offsets, last_block_meta_offset)
    /\ last_block_meta_offset' = Len(block_meta)
    /\ blocks_size' = blocks_size + cur.total_size
    /\ cur' = NoCur
    /\ pc' = "blocks_iter"
    /\ UNCHANGED <<inputvars, sinkvars, index_offset, block_meta, bloom_filter, size,
                   iter_left, result, calls, returned, chunks>>

\* The iterator is exhausted: write_blocks returns Ok(size).
WriteBlocksEnd ==
    /\ pc = "blocks_iter"
    /\ UNCHANGED <<dropvars, usagevars>>
    /\ iter_left = {}
    /\ size' = AddSize(size, blocks_size)
    /\ returned' = Append(returned, blocks_size)
    /\ pc' = "index"
    /\ UNCHANGED <<inputvars, sinkvars, ibvars, iter_left, blocks_size, cur, result,
                   calls, chunks>>

\* ------------------------------------------------------ IndexBuf::write_to
\* Mutant: the slice of a field's Block Metas starts at the head of the buffer.
BlocksSliFromStart(idx) ==
    IF idx + 1 <= Len(block_meta_offsets)
    THEN Slice(block_meta, 0, block_meta_offsets[idx + 1])
    ELSE Slice(block_meta, 0, Len(block_meta))

\* &self.block_meta[block_meta_offsets[index_idx] .. next offset or the end]
\* for the field number idx (1-based).
BlocksSli(idx) ==
    IF idx + 1 <= Len(block_meta_offsets)
    THEN Slice(block_meta, block_meta_offsets[idx], block_meta_offsets[idx + 1])
    ELSE Slice(block_meta, block_meta_offsets[idx], Len(block_meta))

\* The buffers write_to hands to writer.write, in order: for each index meta
\* its INDEX_META_SIZE bytes, then the block metas of the same position.
IndexBufs ==
    LET n == (Len(index_meta) + INDEX_META_SIZE - 1) \div INDEX_META_SIZE IN
    [k \in 1..(2 * n) |->
        LET idx == (k + 1) \div 2 IN
        IF k % 2 = 1
        THEN Slice(index_meta, (idx - 1) * INDEX_META_SIZE, idx * INDEX_META_SIZE)
        ELSE BlocksSli(idx)]

\* write(): self.write_index(): set_index_offset(writer.pos()), then write_to.
WriteIndex ==
    /\ pc = "index"
    /\ UNCHANGED <<dropvars, usagevars>>
    /\ calls' = Append(calls, "write_index")
    /\ index_offset' = pos
    /\ \E failAt \in 0..Len(IndexBufs) :
          LET out == Written(IndexBufs, failAt) IN
          /\ file' = file \o out
          /\ pos' = pos + Len(out)
          /\ io_errors' = io_errors + (IF failAt = 0 THEN 0 ELSE 1)
          /\ IF failAt = 0
             THEN /\ pc' = "footer"
                  /\ size' = AddSize(size, Len(out))
                  /\ returned' = Append(returned, Len(out))
                  /\ UNCHANGED result
             ELSE /\ Fail("write_index", "io")
                  /\ UNCHANGED <<size, returned>>
    /\ UNCHANGED <<inputvars, synced, index_meta, last_block_meta_offset, block_meta_offsets,
                   block_meta, bloom_filter, iter_left, blocks_size, cur, chunks>>

\* Mutant: the footer stores the position at footer time.
FooterBufsAtFooterTime == <<BloomBytes(bloom_filter), to_be_bytes(pos, 8)>>

\* write_footer_to(writer, &index_buf.bloom_filter, index_buf.index_offset)
FooterBufs == <<BloomBytes(bloom_filter), to_be_bytes(index_offset, 8)>>

\* Mutant: a failed footer write cleans up, truncating the sink to where the
\* writer began and rewinding the cursor.
WriteFooterRollsBack ==
    /\ pc = "footer"
    /\ UNCHANGED <<dropvars, usagevars>>
    /\ calls' = Append(calls, "write_footer")
    /\ \E failAt \in 0..Len(FooterBufs) :
          LET out == Written(FooterBufs, failAt) IN
          /\ io_errors' = io_errors + (IF failAt = 0 THEN 0 ELSE 1)
          /\ IF failAt = 0
             THEN /\ file' = file \o out
                  /\ pos' = pos + Len(out)
                  /\ pc' = "flush"
                  /\ size' = FooterSize(size, Len(out))
                  /\ returned' = Append(returned, Len(out))
                  /\ UNCHANGED result
             ELSE /\ file' = <<>>
                  /\ pos' = start_pos
                  /\ Fail("write_footer", "io")
                  /\ UNCHANGED <<size, returned>>
    /\ UNCHANGED <<inputvars, ibvars, synced, iter_left, blocks_size, cur, chunks>>

\* write(): self.write_footer()
WriteFooter ==
    /\ pc = "footer"
    /\ UNCHANGED <<dropvars, usagevars>>
    /\ calls' = Append(calls, "write_footer")
    /\ \E failAt \in 0..Len(FooterBufs) :
          LET out == Written(FooterBufs, failAt) IN
          /\ file' = file \o out
          /\ pos' = pos + Len(out)
          /\ io_errors' = io_errors + (IF failAt = 0 THEN 0 ELSE 1)
          /\ IF failAt = 0
             THEN /\ pc' = "flush"
                  /\ size' = FooterSize(size, Len(out))
                  /\ returned' = Append(returned, Len(out))
                  /\ UNCHANGED result
             ELSE /\ Fail("write_footer", "io")
                  /\ UNCHANGED <<size, returned>>
    /\ UNCHANGED <<inputvars, ibvars, synced, iter_left, blocks_size, cur, chunks>>

\* Mutant: the result of sync_all is ignored and Ok(size) is returned anyway.
FlushIgnoresSyncError ==
    /\ pc = "flush"
    /\ UNCHANGED <<dropvars, usagevars>>
    /\ calls' = Append(calls, "flush")
    /\ pc' = "done"
    /\ result' = Ok(size)
    /\ \/ synced' = Append(synced, Len(file)) /\ UNCHANGED io_errors
       \/ io_errors' = io_errors + 1 /\ UNCHANGED synced
    /\ UNCHANGED <<inputvars, ibvars, pos, file, size, iter_left, blocks_size, cur,
                   returned, chunks>>

\* write(): self.flush(), i.e. writer.sync_all(FileSync::Hard), then Ok(size).
Flush ==
    /\ pc = "flush"
    /\ UNCHANGED <<dropvars, usagevars>>
    /\ calls' = Append(calls, "flush")
    /\ \/ /\ synced' = Append(synced, Len(file))
          /\ pc' = "done"
          /\ result' = Ok(size)
          /\ UNCHANGED io_errors
       \/ /\ Fail("flush", "io")
          /\ io_errors' = io_errors + 1
          /\ UNCHANGED synced
    /\ UNCHANGED <<inputvars, ibvars, pos, file, size, iter_left, blocks_size, cur,
                   returned, chunks>>

Next ==
    \/ WriteHeader
    \/ WriteBlocksBegin
    \/ WriteOneBlockBegin
    \/ WriteChunk
    \/ WriteOneBlockEnd
    \/ WriteBlocksEnd
    \/ WriteIndex
    \/ WriteFooter
    \/ Flush

Spec == Init /\ [][Next]_vars

NextDrop ==
    \E name \in ObjectNames, if_exist \in BOOLEAN, obj_type \in GlobalObjectTypes :
        Execute(name, if_exist, obj_type)

\* DROP USER / DROP TENANT statements executed one after another.
InitDrop == TsmWriterNew /\ variant = "default" /\ start_pos = 0 /\ DropInit /\ UsageIdle
SpecDrop == InitDrop /\ [][NextDrop]_vars

NextUsage ==
    \E s \in Sessions, name \in ViewNames :
        Table(s, name)

\* Sessions resolving usage_schema tables one after another.
InitUsage == TsmWriterNew /\ variant = "default" /\ start_pos = 0 /\ DropIdle /\ UsageIdle
SpecUsage == InitUsage /\ [][NextUsage]_vars

\* ------------------------------------------------- reading the metadata back
NumBlockMeta == Len(block_meta) \div BLOCK_META_SIZE
\* The k-th Block Meta accumulated in IndexBuf.block_meta, decoded.
BlockMetaAt(k) ==
    LET b == Slice(block_meta, (k - 1) * BLOCK_META_SIZE, k * BLOCK_META_SIZE) IN
    [min_ts |-> from_be_bytes(Slice(b, 0, 8)), max_ts |-> from_be_bytes(Slice(b, 8, 16)),
     offset |-> from_be_bytes(Slice(b, 16, 24)), size |-> from_be_bytes(Slice(b, 24, 32)),
     val_off |-> from_be_bytes(Slice(b, 32, 40))]

NumIndexMeta == Len(index_meta) \div INDEX_META_SIZE
\* The k-th Index Meta accumulated in IndexBuf.index_meta, decoded.
IndexMetaAt(k) ==
    LET b == Slice(index_meta, (k - 1) * INDEX_META_SIZE, k * INDEX_META_SIZE) IN
    [field_id |-> from_be_bytes(Slice(b, 0, 8)), type |-> b[9],
     block_count |-> from_be_bytes(Slice(b, 9, 11))]

\* The bit positions set in a serialized filter.
BloomFromBytes(bytes) ==
    { 8 * (j - 1) + b : j \in 1..Len(bytes), b \in 0..7 } \cap
    { x \in 0..(8 * Len(bytes) - 1) : (bytes[(x \div 8) + 1] \div (2 ^ (x % 8))) % 2 = 1 }

\* The chunks emitted for field f, in emission order.
ChunksOf(f) == SelectSeq(chunks, LAMBDA c : c.fid = f)

\* write_one_block has returned Ok for field f: its Index Meta was inserted.
Returned(f) == \E k \in 1..NumIndexMeta : IndexMetaAt(k).field_id = f
\* write_one_block has panicked while writing field f.
PanickedIn(f) == pc = "panicked" /\ cur.fid = f

PhaseOrder == <<"write_header", "write_blocks", "write_index", "write_footer", "flush">>

\* ------------------------------------------------------------------ claims

\* C1: in every run of write() the phases are invoked in the order
\* write_header, write_blocks, write_index, write_footer, flush, each at most
\* once; a phase is invoked only after every earlier phase has returned
\* success; Ok is returned only after flush has returned success.
C1_PhaseOrder ==
    /\ Len(calls) <= Len(PhaseOrder)
    /\ calls = SubSeq(PhaseOrder, 1, Len(calls))
    /\ Len(calls) >= 1 => Len(returned) >= Len(calls) - 1
    /\ result.kind = "Ok" => /\ calls = PhaseOrder
                             /\ Len(returned) = 4
                             /\ synced = <<Len(file)>>

\* C1 witness: a write of at least two chunks has returned Ok.
C1_Witness == pc = "done" /\ result.kind = "Ok" /\ Len(chunks) >= 2 /\ calls = PhaseOrder

\* C2: once a sink call of phase k has failed, write() has returned
\* WriteTsmErr wrapping that failure, phase k is the last phase invoked, no
\* further sink call is made (so none is retried) and nothing runs any more.
C2_SinkFailureAborts ==
    io_errors >= 1 =>
        /\ io_errors = 1
        /\ pc = "failed"
        /\ result.kind = "WriteTsmErr"
        /\ result.reason = "io"
        /\ calls # <<>>
        /\ calls[Len(calls)] = result.phase
        /\ result.phase = "write_blocks" =>
              \A ph \in {"write_index", "write_footer", "flush"} :
                 \A k \in 1..Len(calls) : calls[k] # ph
        /\ ~ ENABLED Next

\* C2 witness: a sink write failed in the middle of the Blocks phase, after a
\* chunk had been written.
C2_Witness ==
    /\ pc = "failed" /\ io_errors = 1 /\ result.phase = "write_blocks"
    /\ Len(chunks) >= 1 /\ pos > chunks[Len(chunks)].pos_after

\* The point ranges of cs, in order, partition [0, n).
Partitions(cs, n) ==
    /\ Len(cs) >= 1
    /\ cs[1].start = 0
    /\ \A k \in 1..(Len(cs) - 1) : cs[k + 1].start = cs[k].end
    /\ cs[Len(cs)].end = n

\* C3 (as claimed): for every field with n >= 1 points, multiples of the cap
\* included, write_one_block emits chunks whose ranges partition [0, n).
C3_ChunkCoverage ==
    \A f \in DOMAIN cached_blocks :
        LET n == BlockLen(cached_blocks[f]) IN
        (n >= 1 /\ (Returned(f) \/ PanickedIn(f))) => Partitions(ChunksOf(f), n)

Ceil(n, d) == (n + d - 1) \div d

\* C4 (as claimed): for a field with n >= 1 points write_one_block completes
\* and records block_count = ceil(n / cap); for n = cap it emits exactly one
\* chunk, [0, cap), and records block_count = 1.
C4_ChunkCount ==
    \A f \in DOMAIN cached_blocks :
        LET n == BlockLen(cached_blocks[f]) IN
        n >= 1 =>
            /\ ~ PanickedIn(f)
            /\ \A k \in 1..NumIndexMeta :
                  IndexMetaAt(k).field_id = f =>
                      /\ IndexMetaAt(k).block_count = Ceil(n, MAX_BLOCK_VALUES)
                      /\ Len(ChunksOf(f)) = IndexMetaAt(k).block_count
                      /\ n = MAX_BLOCK_VALUES =>
                            /\ IndexMetaAt(k).block_count = 1
                            /\ ChunksOf(f)[1].start = 0
                            /\ ChunksOf(f)[1].end = MAX_BLOCK_VALUES

\* The filter bytes of the footer of a complete file.
FooterFilter == BloomFromBytes(Slice(file, Len(file) - 8 - (BLOOM_FILTER_BITS \div 8),
                                     Len(file) - 8))

\* C5 (as claimed): after a successful write every field whose blocks were
\* written is reported present by the filter serialized in the footer.
C5_FilterSoundness ==
    pc = "done" =>
        \A f \in DOMAIN cached_blocks :
            /\ BloomContains(bloom_filter, f)
            /\ BloomContains(FooterFilter, f)

\* C6 (as claimed): on success the size write() returns is the sum of the
\* byte counts of header, blocks, index and footer, the bytes appended.
C6_TotalSize ==
    result.kind = "Ok" =>
        /\ result.size = returned[1] + returned[2] + returned[3] + returned[4]
        /\ result.size = Len(file)

\* C7 (as claimed): of two chunks written one after the other the later one's
\* byte_offset is strictly greater than the earlier one's byte_offset + byte_size.
C7_OffsetStrictlyGreater ==
    \A k \in 1..(NumBlockMeta - 1) :
        BlockMetaAt(k + 1).offset > BlockMetaAt(k).offset + BlockMetaAt(k).size

\* C7 (amended): of two chunks written one after the other, within a field
\* and across fields, the later one's byte_offset is greater than or equal to
\* the earlier one's byte_offset + byte_size.
C7_OffsetMonotone ==
    \A k \in 1..(NumBlockMeta - 1) :
        BlockMetaAt(k + 1).offset >= BlockMetaAt(k).offset + BlockMetaAt(k).size

\* C7 witness: two chunks of one field followed by a chunk of another field.
C7_Witness ==
    /\ NumBlockMeta >= 3
    /\ chunks[1].fid = chunks[2].fid
    /\ chunks[3].fid # chunks[2].fid

\* C8: every Block Meta's byte_size is the number of bytes appended for its
\* chunk: 4 + timestamp payload + 4 + value payload, which is the sink
\* position after the chunk minus the recorded byte_offset; the sink holds
\* exactly that many bytes of the chunk from byte_offset on.
C8_SizeExact ==
    /\ NumBlockMeta = Len(chunks)
    /\ \A k \in 1..NumBlockMeta :
          LET m == BlockMetaAt(k)
              c == chunks[k]
              block == cached_blocks[c.fid]
          IN
          /\ m.size = 4 + c.ts_len + 4 + c.data_len
          /\ m.size = c.pos_after - m.offset
          /\ Slice(file, m.offset - start_pos, m.offset - start_pos + m.size)
                = Concat(ChunkBufs(EncodeTs(block, c.start, c.end),
                                   EncodeVal(block, c.start, c.end)))

\* C8 witness: two chunks of different byte sizes have been recorded.
C8_Witness ==
    /\ NumBlockMeta >= 2
    /\ BlockMetaAt(1).size # BlockMetaAt(2).size

\* C9: after a successful write the 8-byte index offset of the footer is the
\* sink position at the start of write_index (after the last block byte), the
\* index region was written from that offset on, and the value is the one
\* captured then, not the position at footer time.
C9_FooterIndexOffset ==
    pc = "done" =>
        LET stored == from_be_bytes(Slice(file, Len(file) - 8, Len(file))) IN
        /\ stored = start_pos + returned[1] + returned[2]
        /\ stored = index_offset
        /\ Slice(file, stored - start_pos, stored - start_pos + returned[3])
              = Concat(IndexBufs)
        /\ returned[3] > 0 => stored < pos - returned[4]

\* C9 witness: a successful write whose index region is not empty.
C9_Witness == pc = "done" /\ NumIndexMeta >= 1 /\ returned[3] > 0

\* C10 (as claimed): every recorded Block Meta has min_timestamp <=
\* max_timestamp, whatever the order of the block's timestamps.
C10_MinMaxOrdered ==
    \A k \in 1..NumBlockMeta : BlockMetaAt(k).min_ts <= BlockMetaAt(k).max_ts

\* C11 (as claimed): every chunk write_one_block takes up holds at least 1
\* and at most cap points; the first one holds n mod cap points, cap points
\* when the remainder is 0, and every later one holds exactly cap points.
C11_ChunkSizes ==
    /\ \A k \in 1..Len(chunks) :
          LET c == chunks[k]
              n == BlockLen(cached_blocks[c.fid])
              rem == n % MAX_BLOCK_VALUES
          IN
          /\ c.end - c.start >= 1
          /\ c.end - c.start <= MAX_BLOCK_VALUES
          /\ c.start = 0 => c.end - c.start = (IF rem = 0 THEN MAX_BLOCK_VALUES ELSE rem)
          /\ c.start > 0 => c.end - c.start = MAX_BLOCK_VALUES
    /\ (pc \in {"chunk", "panicked"} /\ cur.fid # 0 /\ cur.i < cur.block_count) =>
          LET n == BlockLen(cached_blocks[cur.fid])
              rem == n % MAX_BLOCK_VALUES
              points == ChunkEnd(n, cur.i) - ChunkStart(cur.last_index, cur.i)
          IN
          /\ points >= 1
          /\ points <= MAX_BLOCK_VALUES
          /\ cur.i = 0 => points = (IF rem = 0 THEN MAX_BLOCK_VALUES ELSE rem)
          /\ cur.i > 0 => points = MAX_BLOCK_VALUES

\* C12 (as claimed): write_blocks emits the fields in ascending field
\* identifier order, whatever the iteration order of the mapping.
C12_AscendingFieldOrder ==
    /\ \A k \in 1..(Len(chunks) - 1) : chunks[k].fid <= chunks[k + 1].fid
    /\ \A k \in 1..(NumIndexMeta - 1) :
          IndexMetaAt(k).field_id < IndexMetaAt(k + 1).field_id

\* C13: write() returns Ok only after one sync_all(Hard) that was issued
\* after the last footer byte was written and that succeeded; when the sync
\* fails after four successful writing phases, write() returns WriteTsmErr.
C13_DurableBeforeOk ==
    /\ result.kind = "Ok" =>
          /\ Len(returned) = 4
          /\ Len(synced) = 1
          /\ synced[1] = returned[1] + returned[2] + returned[3] + returned[4]
          /\ synced[1] = Len(file)
          /\ calls[Len(calls)] = "flush"
          /\ io_errors = 0
    /\ (Len(calls) = 5 /\ synced = <<>>) =>
          /\ result.kind = "WriteTsmErr"
          /\ result.phase = "flush"
          /\ Len(returned) = 4
          /\ pc = "failed"

\* C13 witness: the sync failed after header, blocks, index and footer were
\* written with success.
C13_Witness ==
    /\ pc = "failed" /\ result.phase = "flush" /\ Len(returned) = 4
    /\ Len(chunks) >= 1 /\ synced = <<>>

\* ------------------------------------------------------------ reading back
\* The reader (IndexReader, ColumnReader of test_tsm_read_fast) follows the
\* layout of the file: footer -> index offset -> Index Metas with their Block
\* Metas -> chunk bytes -> decoded points.

\* buf[from..to) when the range lies inside buf, nothing otherwise.
SafeSlice(buf, from, to) ==
    IF 0 <= from /\ from <= to /\ to <= Len(buf) THEN Slice(buf, from, to) ELSE <<>>

\* The inverse of DataBlock::encode for a timestamp or value buffer: the
\* payload bytes behind the leading byte; <<-1>> for a malformed buffer.
DecodeTs(buf) ==
    IF Len(buf) >= 1 /\ buf[1] = Len(buf) - 1 THEN Tail(buf) ELSE <<-1>>
DecodeVal(buf, type) ==
    IF Len(buf) >= 1 /\ buf[1] = type THEN Tail(buf) ELSE <<-1>>

\* One 40-byte Block Meta record, decoded.
DecodeBlockMeta(b) ==
    [min_ts |-> from_be_bytes(SafeSlice(b, 0, 8)), max_ts |-> from_be_bytes(SafeSlice(b, 8, 16)),
     offset |-> from_be_bytes(SafeSlice(b, 16, 24)), size |-> from_be_bytes(SafeSlice(b, 24, 32)),
     val_off |-> from_be_bytes(SafeSlice(b, 32, 40))]

\* The index region parsed front to back: per entry the Index Meta fields and
\* the block_count Block Metas that follow it.
RECURSIVE ParseIndex(_)
ParseIndex(region) ==
    IF Len(region) < INDEX_META_SIZE THEN <<>>
    ELSE LET field_id == from_be_bytes(Slice(region, 0, 8))
             type == region[9]
             block_count == from_be_bytes(Slice(region, 9, 11))
             stop == INDEX_META_SIZE + block_count * BLOCK_META_SIZE
             metas == [j \in 1..block_count |->
                          DecodeBlockMeta(SafeSlice(region,
                              INDEX_META_SIZE + (j - 1) * BLOCK_META_SIZE,
                              INDEX_META_SIZE + j * BLOCK_META_SIZE))]
         IN <<[field_id |-> field_id, type |-> type, block_count |-> block_count,
               blocks |-> metas]>>
            \o ParseIndex(SafeSlice(region, stop, Len(region)))

FooterLen == (BLOOM_FILTER_BITS \div 8) + 8
\* The index offset stored in the last 8 bytes of the file.
StoredIndexOffset == from_be_bytes(SafeSlice(file, Len(file) - 8, Len(file)))
\* The index of a complete file: from the stored offset up to the footer.
ReadIndex == ParseIndex(SafeSlice(file, StoredIndexOffset - start_pos, Len(file) - FooterLen))

\* The chunk a Block Meta points at: both checksums verified, both payloads decoded.
ReadChunk(m, type) ==
    LET base == m.offset - start_pos
        vbase == m.val_off - start_pos
        ts_crc == SafeSlice(file, base, base + 4)
        ts_buf == SafeSlice(file, base + 4, vbase)
        val_crc == SafeSlice(file, vbase, vbase + 4)
        val_buf == SafeSlice(file, vbase + 4, base + m.size)
    IN [crc_ok |-> /\ ts_crc = to_be_bytes(crc32fast_hash(ts_buf), 4)
                   /\ val_crc = to_be_bytes(crc32fast_hash(val_buf), 4),
        ts |-> DecodeTs(ts_buf), val |-> DecodeVal(val_buf, type)]

\* The points of one index entry: its chunks decoded in index order.
RECURSIVE ReadTs(_, _)
ReadTs(metas, type) ==
    IF Len(metas) = 0 THEN <<>>
    ELSE ReadChunk(metas[1], type).ts \o ReadTs(Tail(metas), type)
RECURSIVE ReadVals(_, _)
ReadVals(metas, type) ==
    IF Len(metas) = 0 THEN <<>>
    ELSE ReadChunk(metas[1], type).val \o ReadVals(Tail(metas), type)

\* C14: round trip. A file written with success, read back through the
\* footer's index offset, the index and the Block Metas, yields for each field
\* exactly its original timestamps and values in their original order, with
\* every checksum matching.
C14_RoundTrip ==
    pc = "done" =>
        LET index == ReadIndex IN
        /\ Len(index) = Cardinality(DOMAIN cached_blocks)
        /\ \A f \in DOMAIN cached_blocks :
              \E k \in 1..Len(index) :
                 /\ index[k].field_id = f
                 /\ \A j \in 1..Len(index[k].blocks) :
                       ReadChunk(index[k].blocks[j], index[k].type).crc_ok
                 /\ ReadTs(index[k].blocks, index[k].type) = cached_blocks[f].ts
                 /\ ReadVals(index[k].blocks, index[k].type) = cached_blocks[f].val

\* C14 witness: a file with a two-chunk field of unsorted points and a
\* second field has been written with success.
C14_Witness ==
    /\ pc = "done"
    /\ Cardinality(DOMAIN cached_blocks) = 2
    /\ \E f \in DOMAIN cached_blocks :
          /\ Len(ChunksOf(f)) = 2
          /\ cached_blocks[f].ts[1] > cached_blocks[f].ts[2]

\* C15: an Index Meta is appended for a field only after all of the field's
\* chunks were emitted and carries the field's identifier, value type and
\* chunk count; after a successful write the index region holds exactly one
\* Index Meta per field of the mapping, and for two single-chunk fields two
\* entries with block_count = 1 each.
C15_OneIndexMetaPerField ==
    /\ \A k \in 1..NumIndexMeta :
          LET m == IndexMetaAt(k) IN
          /\ m.field_id \in DOMAIN cached_blocks
          /\ m.type = FieldType(cached_blocks[m.field_id])
          /\ m.block_count = Len(ChunksOf(m.field_id))
          /\ ~ (pc = "chunk" /\ cur.fid = m.field_id)
          /\ \A j \in 1..NumIndexMeta : j # k => IndexMetaAt(j).field_id # m.field_id
    /\ pc = "done" =>
          LET index == ReadIndex IN
          /\ Len(index) = Cardinality(DOMAIN cached_blocks)
          /\ { index[k].field_id : k \in 1..Len(index) } = DOMAIN cached_blocks
          /\ \A k \in 1..Len(index) :
                /\ index[k].type = FieldType(cached_blocks[index[k].field_id])
                /\ index[k].block_count = Len(ChunksOf(index[k].field_id))
          /\ (/\ Cardinality(DOMAIN cached_blocks) = 2
              /\ \A f \in DOMAIN cached_blocks :
                    BlockLen(cached_blocks[f]) <= MAX_BLOCK_VALUES) =>
                /\ Len(index) = 2
                /\ index[1].block_count = 1
                /\ index[2].block_count = 1

\* C15 witness: two single-chunk fields of different value types have been
\* written with success.
C15_Witness ==
    /\ pc = "done"
    /\ Cardinality(DOMAIN cached_blocks) = 2
    /\ \A f \in DOMAIN cached_blocks : Len(ChunksOf(f)) = 1
    /\ \E f, g \in DOMAIN cached_blocks :
          FieldType(cached_blocks[f]) # FieldType(cached_blocks[g])

\* C16: write_header_to appends exactly 5 bytes, the magic 0x01346613 in big
\* endian order and the version 1, and returns 5; the first chunk written
\* through a cursor that started at 0 is recorded with byte_offset 5.
C16_Header ==
    /\ pc = "blocks" => (Len(file) = HEADER_LEN /\ pos = start_pos + HEADER_LEN)
    /\ Len(returned) >= 1 =>
          /\ returned[1] = HEADER_LEN
          /\ Slice(file, 0, 4) = <<1, 52, 102, 19>>
          /\ from_be_bytes(Slice(file, 0, 4)) = TSM_MAGIC
          /\ Slice(file, 4, 5) = <<VERSION>>
    /\ (start_pos = 0 /\ NumBlockMeta >= 1) => BlockMetaAt(1).offset = HEADER_LEN

\* C16 witness: a chunk has been recorded through a cursor that started at 0.
C16_Witness == start_pos = 0 /\ NumBlockMeta >= 1 /\ returned[1] = 5

\* C17 (as claimed): write() of the streaming variant runs header, blocks,
\* index, footer and flush and ends with a result, a size or a WriteTsmErr.
C17_DefaultWriterCompletes ==
    variant = "default" =>
        /\ pc # "panicked"
        /\ (~ ENABLED Next) => result.kind \in {"Ok", "WriteTsmErr"}

\* p is a prefix of s.
IsPrefix(p, s) == Len(p) <= Len(s) /\ SubSeq(s, 1, Len(p)) = p

\* C18: no step of the writer, the failing one included, removes a byte from
\* the sink, rewinds the cursor or drops metadata the Index Builder holds;
\* after the failure nothing changes any more.
C18_NoCleanup ==
    [][ /\ IsPrefix(file, file')
        /\ pos' >= pos
        /\ pos' = start_pos + Len(file')
        /\ IsPrefix(block_meta, block_meta')
        /\ IsPrefix(index_meta, index_meta')
        /\ IsPrefix(block_meta_offsets, block_meta_offsets')
        /\ pc = "failed" => UNCHANGED vars ]_vars

\* C18 witness: the footer write failed after blocks and index were written.
C18_Witness ==
    /\ pc = "failed" /\ result.phase = "write_footer"
    /\ NumBlockMeta >= 2 /\ NumIndexMeta >= 1
    /\ Len(file) = returned[1] + returned[2] + returned[3]

\* The Block Meta records inserted for the chunks of field f, from record j on.
RECURSIVE MetasOf(_, _)
MetasOf(f, j) ==
    IF j > NumBlockMeta \/ j > Len(chunks) THEN <<>>
    ELSE (IF chunks[j].fid = f
          THEN Slice(block_meta, (j - 1) * BLOCK_META_SIZE, j * BLOCK_META_SIZE)
          ELSE <<>>) \o MetasOf(f, j + 1)

\* What the index region has to hold: per field, in accumulation order, its
\* Index Meta and then the Block Metas inserted for that field.
ExpectedIndex ==
    Concat([k \in 1..NumIndexMeta |->
               Slice(index_meta, (k - 1) * INDEX_META_SIZE, k * INDEX_META_SIZE)
               \o MetasOf(IndexMetaAt(k).field_id, 1)])

\* The bytes write_index has appended to the sink.
IndexRegion ==
    SafeSlice(file, index_offset - start_pos, index_offset - start_pos + returned[3])

\* C19: once write_index has returned, the index region holds, for the i-th
\* field in accumulation order, its 11-byte Index Meta followed by exactly
\* block_count 40-byte Block Metas, the ones inserted for that field; the
\* region is 11 * fields + 40 * chunks bytes long.
C19_IndexLayout ==
    Len(returned) >= 3 =>
        /\ IndexRegion = ExpectedIndex
        /\ returned[3] = INDEX_META_SIZE * NumIndexMeta + BLOCK_META_SIZE * Len(chunks)
        /\ Len(IndexRegion) = returned[3]
        /\ NumIndexMeta = Cardinality(DOMAIN cached_blocks)
        /\ \A k \in 1..NumIndexMeta :
              Len(MetasOf(IndexMetaAt(k).field_id, 1))
                 = BLOCK_META_SIZE * IndexMetaAt(k).block_count

\* C19 witness: the index of two fields with different chunk counts, the
\* field with the larger identifier first, has been written.
C19_Witness ==
    /\ Len(returned) >= 3
    /\ NumIndexMeta = 2
    /\ IndexMetaAt(1).field_id > IndexMetaAt(2).field_id
    /\ IndexMetaAt(1).block_count # IndexMetaAt(2).block_count

\* C20: every Block Meta's byte_offset is the sink position right before the
\* chunk's timestamp checksum, its value_section_offset the position right
\* before the value checksum, byte_offset + 4 + timestamp payload length, so
\* byte_offset <= value_section_offset < byte_offset + byte_size.
C20_Offsets ==
    \A k \in 1..NumBlockMeta :
        LET m == BlockMetaAt(k)
            c == chunks[k]
            block == cached_blocks[c.fid]
            ts_buf == EncodeTs(block, c.start, c.end)
            data_buf == EncodeVal(block, c.start, c.end)
        IN
        /\ m.offset = c.pos_before
        /\ SafeSlice(file, m.offset - start_pos, m.offset - start_pos + 4)
              = to_be_bytes(crc32fast_hash(ts_buf), 4)
        /\ m.val_off = m.offset + 4 + Len(ts_buf)
        /\ SafeSlice(file, m.val_off - start_pos, m.val_off - start_pos + 4)
              = to_be_bytes(crc32fast_hash(data_buf), 4)
        /\ m.offset <= m.val_off
        /\ m.val_off < m.offset + m.size

\* C20 witness: a second chunk has been recorded through a cursor that did
\* not start at 0.
C20_Witness == NumBlockMeta >= 2 /\ start_pos > 0 /\ BlockMetaAt(2).val_off > BlockMetaAt(2).offset

\* C21: after a successful write through a cursor that started at 0 the
\* chunks tile the Blocks region: the first chunk's byte_offset is 5, each
\* next chunk's byte_offset is the previous one's byte_offset + byte_size,
\* and the last chunk ends at the index offset stored in the footer.
C21_ChunksTileBlocks ==
    (pc = "done" /\ start_pos = 0 /\ NumBlockMeta >= 1) =>
        /\ BlockMetaAt(1).offset = HEADER_LEN
        /\ \A k \in 1..(NumBlockMeta - 1) :
              BlockMetaAt(k + 1).offset = BlockMetaAt(k).offset + BlockMetaAt(k).size
        /\ BlockMetaAt(NumBlockMeta).offset + BlockMetaAt(NumBlockMeta).size
              = StoredIndexOffset
        /\ StoredIndexOffset = HEADER_LEN + returned[2]

\* C21 witness: a successful write of two fields and three chunks through a
\* cursor that started at 0.
C21_Witness ==
    /\ pc = "done" /\ start_pos = 0 /\ NumBlockMeta = 3
    /\ chunks[1].fid # chunks[3].fid

\* C22: execute() always calls the drop of the manager of the statement's
\* object type; an error of that call is returned as it is; otherwise the
\* not-found error of the object type is returned exactly when if_exist is
\* false and the manager reported that nothing was dropped, and Output::Nil
\* when if_exist is true or the object was dropped.
C22_DropOutcome ==
    stmt # NoStmt =>
        LET not_found == ExecutionErrorMetadata(
                IF stmt.obj_type = "User" THEN UserNotFound(stmt.name)
                                          ELSE TenantNotFound(stmt.name)) IN
        /\ manager_call = <<[manager |-> stmt.obj_type, op |-> "drop", name |-> stmt.name]>>
        /\ reply.kind \in {"Ok", "Err"}
        /\ reply.kind = "Err" => output = ExecutionErrorMetadata(reply.error)
        /\ reply.kind = "Ok" =>
              /\ (output = not_found) <=> (~stmt.if_exist /\ ~reply.success)
              /\ (stmt.if_exist \/ reply.success) => output = OutputNil
              /\ output \in {not_found, OutputNil}

\* C22 witness: DROP TENANT without IF EXISTS of a tenant that does not exist
\* returned TenantNotFound after the manager was asked to drop it.
C22_Witness ==
    /\ stmt # NoStmt
    /\ stmt.obj_type = "Tenant" /\ ~stmt.if_exist
    /\ reply = ManagerOk(FALSE)
    /\ manager_call # <<>>
    /\ output = ExecutionErrorMetadata(TenantNotFound(stmt.name))

\* C23: a view that was created carries no filter exactly when the session
\* user is an admin and the session tenant is the default catalog; in every
\* other combination it is filtered on tenant = session tenant, so its rows
\* are exactly the base rows of the session's tenant.
C23_TenantFilter ==
    view.kind = "Ok" =>
        LET unrestricted == session.is_admin /\ session.tenant = DEFAULT_CATALOG IN
        /\ (view.filter.kind = "none") <=> unrestricted
        /\ unrestricted => ViewRows(view, base_rows) = base_rows
        /\ ~unrestricted =>
              /\ view.filter = TenantFilter(session.tenant)
              /\ \A r \in ViewRows(view, base_rows) : r.tenant = session.tenant
              /\ ViewRows(view, base_rows)
                    = { r \in base_rows : r.tenant = session.tenant }

\* C23 witness: an admin in a tenant other than the default catalog got a view
\* that hides the rows of another tenant present in the base table.
C23_Witness ==
    /\ view.kind = "Ok"
    /\ session.is_admin /\ session.tenant # DEFAULT_CATALOG
    /\ \E r \in base_rows : r.tenant # session.tenant
    /\ \E r \in base_rows : r.tenant = session.tenant
    /\ ViewRows(view, base_rows) # base_rows
====
